---- MODULE Spec2Model ----
(***************************************************************************)
(* State-machine model of the EventRegistry contract                       *)
(* (contracts/event_registry/src/lib.rs).  One action per public contract  *)
(* function; every call runs to completion (the host serialises calls and  *)
(* rolls a failed call back), so each action is one atomic step.           *)
(*                                                                         *)
(* The storage module (storage.rs) is not part of the available sources;   *)
(* its operations are modelled from the specification as plain keyed       *)
(* get/set/exists operations, with the organizer index maintained by       *)
(* store_event.                                                            *)
(***************************************************************************)
EXTENDS Integers, Sequences, FiniteSets, TLC

\* ---- bounds and input sets ------------------------------------------------
MaxTime == 1

MAX_FEE_BPS == 10000

Addresses == {"A", "O"}
PayAddresses == {"P"}
EventIds == {"evt1", "evt2"}
FeeInputs == {250, MAX_FEE_BPS, MAX_FEE_BPS + 1}

NoAddr == "-"
NoId == "-"

\* Option<T> is a sequence of length 0 (None) or 1 (Some).
NoneV == << >>
Some(x) == << x >>
IsSome(o) == Len(o) = 1
Unwrap(o) == o[1]

VARIABLES
    admin,              \* Option<Address>: the admin singleton
    platform_fee,       \* Option<u32>: the fee singleton
    events,             \* event_id -> EventInfo, for the ids that have a record
    organizer_events,   \* Address -> sequence of event_ids
    now,                \* env.ledger().timestamp()
    last,               \* the last step: function, arguments, outcome, return value
    published,          \* notifications published by the last step
    effects             \* store writes and publishes of the last step, in program order

vars == <<admin, platform_fee, events, organizer_events, now, last, published, effects>>
store == <<admin, platform_fee, events, organizer_events>>

\* ---- types ------------------------------------------------------------------
EventInfo(id, org, pay, fee, active, created) ==
    [event_id |-> id, organizer_address |-> org, payment_address |-> pay,
     platform_fee_percent |-> fee, is_active |-> active, created_at |-> created]

PaymentInfo(pay, fee) == [payment_address |-> pay, platform_fee_percent |-> fee]

\* Input values of the public store_event accessor: records that no
\* register_event call can produce (other payment address, fee out of range),
\* for either event id, new or existing, owned by "A" or by someone else.
StoreEventInputs ==
    { EventInfo(id, "A", "Q", MAX_FEE_BPS + 1, FALSE, 0) : id \in EventIds }

\* ---- storage module (modelled from the specification) -----------------------
storage_get_admin == admin
storage_has_platform_fee == IsSome(platform_fee)
storage_get_platform_fee == IF IsSome(platform_fee) THEN Unwrap(platform_fee) ELSE 0
storage_event_exists(event_id) == event_id \in DOMAIN events
storage_get_event(event_id) ==
    IF event_id \in DOMAIN events THEN Some(events[event_id]) ELSE NoneV
storage_get_organizer_events(organizer) == organizer_events[organizer]

Contains(seq, x) == \E i \in 1..Len(seq) : seq[i] = x

\* The events map after storage::store_event(event_info).
storage_store_event_records(event_info) ==
    [id \in DOMAIN events \cup {event_info.event_id} |->
        IF id = event_info.event_id THEN event_info ELSE events[id]]

\* The organizer index after storage::store_event(event_info).
storage_store_event_index(event_info) ==
    IF Contains(organizer_events[event_info.organizer_address], event_info.event_id)
    THEN organizer_events
    ELSE [organizer_events EXCEPT ![event_info.organizer_address] =
              Append(@, event_info.event_id)]

\* ---- call records -----------------------------------------------------------
Call(op, caller, event_id, organizer, payment, fee, flag, result, ret) ==
    [op |-> op, caller |-> caller, event_id |-> event_id, organizer |-> organizer,
     payment |-> payment, fee |-> fee, flag |-> flag, result |-> result, ret |-> ret]

Init ==
    /\ admin = NoneV
    /\ platform_fee = NoneV
    /\ events = << >>
    /\ organizer_events = [a \in Addresses |-> << >>]
    /\ now = 0
    /\ last = Call("none", NoAddr, NoId, NoAddr, NoAddr, 0, FALSE, "Ok", NoneV)
    /\ published = << >>
    /\ effects = << >>

\* ---- initialize -------------------------------------------------------------
\* Mutant: the already-initialized guard is dropped.
InitializeOutcome_NoGuard(platform_fee_percent) ==
    IF platform_fee_percent > MAX_FEE_BPS THEN "InvalidFeePercent" ELSE "Ok"

InitializeOutcome(platform_fee_percent) ==
    IF IsSome(storage_get_admin) \/ storage_has_platform_fee
    THEN "EventAlreadyExists"
    ELSE IF platform_fee_percent > MAX_FEE_BPS
    THEN "InvalidFeePercent"
    ELSE "Ok"

\* The writes of a successful initialize, in program order; nothing is published.
InitializeEffects == << "set_admin", "set_platform_fee" >>

\* Mutant: the fee is not stored by initialize.
initialize_AdminOnly(new_admin, platform_fee_percent) ==
    LET res == InitializeOutcome(platform_fee_percent) IN
    /\ effects' = IF res = "Ok" THEN << "set_admin" >> ELSE << >>
    /\ IF res = "Ok"
       THEN /\ admin' = Some(new_admin)
            /\ UNCHANGED platform_fee
       ELSE UNCHANGED <<admin, platform_fee>>
    /\ UNCHANGED <<events, organizer_events, now>>
    /\ published' = << >>
    /\ last' = Call("initialize", NoAddr, NoId, new_admin, NoAddr,
                    platform_fee_percent, FALSE, res, NoneV)

\* Mutant: the admin is written before the fee range is checked.
initialize_WriteBeforeRangeCheck(new_admin, platform_fee_percent) ==
    LET res == InitializeOutcome(platform_fee_percent) IN
    /\ effects' = IF res = "Ok" THEN InitializeEffects ELSE << >>
    /\ IF res = "Ok"
       THEN /\ admin' = Some(new_admin)
            /\ platform_fee' = Some(platform_fee_percent)
       ELSE IF res = "InvalidFeePercent"
       THEN /\ admin' = Some(new_admin)
            /\ UNCHANGED platform_fee
       ELSE UNCHANGED <<admin, platform_fee>>
    /\ UNCHANGED <<events, organizer_events, now>>
    /\ published' = << >>
    /\ last' = Call("initialize", NoAddr, NoId, new_admin, NoAddr,
                    platform_fee_percent, FALSE, res, NoneV)

initialize(new_admin, platform_fee_percent) ==
    LET res == InitializeOutcome(platform_fee_percent) IN
    /\ effects' = IF res = "Ok" THEN InitializeEffects ELSE << >>
    /\ IF res = "Ok"
       THEN /\ admin' = Some(new_admin)
            /\ platform_fee' = Some(platform_fee_percent)
       ELSE UNCHANGED <<admin, platform_fee>>
    /\ UNCHANGED <<events, organizer_events, now>>
    /\ published' = << >>
    /\ last' = Call("initialize", NoAddr, NoId, new_admin, NoAddr,
                    platform_fee_percent, FALSE, res, NoneV)

\* ---- register_event ---------------------------------------------------------
\* organizer_address.require_auth() aborts the call unless the caller controls
\* that address; then the existence check.
\* Mutant: the existence check is dropped.
RegisterOutcome_NoExistsCheck(caller, event_id, organizer_address) ==
    IF caller # organizer_address THEN "AuthFailed" ELSE "Ok"

RegisterOutcome(caller, event_id, organizer_address) ==
    IF caller # organizer_address
    THEN "AuthFailed"
    ELSE IF storage_event_exists(event_id)
    THEN "EventAlreadyExists"
    ELSE "Ok"

\* Mutant: created_at is not read from the ledger.
NewEventInfo_NoTimestamp(event_id, organizer_address, payment_address) ==
    EventInfo(event_id, organizer_address, payment_address,
              storage_get_platform_fee, TRUE, 0)

NewEventInfo(event_id, organizer_address, payment_address) ==
    EventInfo(event_id, organizer_address, payment_address,
              storage_get_platform_fee, TRUE, now)

EventRegistered(event_id, organizer_address, payment_address) ==
    [type |-> "EventRegistered", event_id |-> event_id,
     organizer_address |-> organizer_address,
     payment_address |-> payment_address, timestamp |-> now]

\* Mutant: the notification is published before the record is stored.
RegisterEffects_PublishFirst == << "publish", "store_event" >>

\* The write and the publish of a successful register_event, in program order.
RegisterEffects == << "store_event", "publish" >>

register_event(caller, event_id, organizer_address, payment_address) ==
    LET res == RegisterOutcome(caller, event_id, organizer_address)
        event_info == NewEventInfo(event_id, organizer_address, payment_address)
    IN
    /\ effects' = IF res = "Ok" THEN RegisterEffects ELSE << >>
    /\ IF res = "Ok"
       THEN /\ events' = storage_store_event_records(event_info)
            /\ organizer_events' = storage_store_event_index(event_info)
            /\ published' = << EventRegistered(event_id, organizer_address,
                                               payment_address) >>
       ELSE /\ UNCHANGED <<events, organizer_events>>
            /\ published' = << >>
    /\ UNCHANGED <<admin, platform_fee, now>>
    /\ last' = Call("register_event", caller, event_id, organizer_address,
                    payment_address, 0, FALSE, res, NoneV)

\* ---- get_event_payment_info -------------------------------------------------
\* Mutant: the is_active check is dropped.
PaymentInfoOutcome_NoActiveCheck(event_id) ==
    IF IsSome(storage_get_event(event_id)) THEN "Ok" ELSE "EventNotFound"

PaymentInfoOutcome(event_id) ==
    LET found == storage_get_event(event_id) IN
    IF IsSome(found)
    THEN IF ~ Unwrap(found).is_active THEN "EventInactive" ELSE "Ok"
    ELSE "EventNotFound"

\* Mutant: the current global fee is returned instead of the snapshot.
PaymentInfoOf_GlobalFee(event_info) ==
    PaymentInfo(event_info.payment_address, storage_get_platform_fee)

PaymentInfoOf(event_info) ==
    PaymentInfo(event_info.payment_address, event_info.platform_fee_percent)

\* The value get_event_payment_info returns in the current state: Some(PaymentInfo)
\* for Ok, None for an error.
PaymentInfoValue(event_id) ==
    IF PaymentInfoOutcome(event_id) = "Ok"
    THEN Some(PaymentInfoOf(Unwrap(storage_get_event(event_id))))
    ELSE NoneV

get_event_payment_info(event_id) ==
    /\ effects' = << >>
    /\ UNCHANGED <<admin, platform_fee, events, organizer_events, now>>
    /\ published' = << >>
    /\ last' = Call("get_event_payment_info", NoAddr, event_id, NoAddr, NoAddr,
                    0, FALSE, PaymentInfoOutcome(event_id), PaymentInfoValue(event_id))

\* ---- update_event_status ----------------------------------------------------
\* Mutant: the organizer's authorization is not required.
UpdateOutcome_NoAuth(caller, event_id) ==
    IF IsSome(storage_get_event(event_id)) THEN "Ok" ELSE "EventNotFound"

UpdateOutcome(caller, event_id) ==
    LET found == storage_get_event(event_id) IN
    IF IsSome(found)
    THEN IF caller # Unwrap(found).organizer_address THEN "AuthFailed" ELSE "Ok"
    ELSE "EventNotFound"

UpdatedEventInfo(event_info, is_active) ==
    [event_info EXCEPT !.is_active = is_active]

EventStatusUpdated(event_id, is_active, updated_by) ==
    [type |-> "EventStatusUpdated", event_id |-> event_id, is_active |-> is_active,
     updated_by |-> updated_by, timestamp |-> now]

\* Mutant: deactivating an event removes its record.
UpdatedRecords_DeleteOnDeactivate(event_info) ==
    IF event_info.is_active
    THEN storage_store_event_records(event_info)
    ELSE [id \in DOMAIN events \ {event_info.event_id} |-> events[id]]

\* The events map after update_event_status has persisted the updated record.
UpdatedRecords(event_info) == storage_store_event_records(event_info)

\* The write and the publish of a successful update_event_status, in program order.
UpdateEffects == << "store_event", "publish" >>

\* Mutant: no notification when is_active already has the requested value.
update_event_status_SilentWhenUnchanged(caller, event_id, is_active) ==
    LET res == UpdateOutcome(caller, event_id) IN
    /\ effects' = IF res = "Ok" THEN UpdateEffects ELSE << >>
    /\ IF res = "Ok"
       THEN LET event_info == UpdatedEventInfo(Unwrap(storage_get_event(event_id)),
                                               is_active) IN
            /\ events' = UpdatedRecords(event_info)
            /\ organizer_events' = storage_store_event_index(event_info)
            /\ published' = IF events[event_id].is_active = is_active
                            THEN << >>
                            ELSE << EventStatusUpdated(event_id, is_active,
                                                       event_info.organizer_address) >>
       ELSE /\ UNCHANGED <<events, organizer_events>>
            /\ published' = << >>
    /\ UNCHANGED <<admin, platform_fee, now>>
    /\ last' = Call("update_event_status", caller, event_id, NoAddr, NoAddr,
                    0, is_active, res, NoneV)

update_event_status(caller, event_id, is_active) ==
    LET res == UpdateOutcome(caller, event_id) IN
    /\ effects' = IF res = "Ok" THEN UpdateEffects ELSE << >>
    /\ IF res = "Ok"
       THEN LET event_info == UpdatedEventInfo(Unwrap(storage_get_event(event_id)),
                                               is_active) IN
            /\ events' = UpdatedRecords(event_info)
            /\ organizer_events' = storage_store_event_index(event_info)
            /\ published' = << EventStatusUpdated(event_id, is_active,
                                                  event_info.organizer_address) >>
       ELSE /\ UNCHANGED <<events, organizer_events>>
            /\ published' = << >>
    /\ UNCHANGED <<admin, platform_fee, now>>
    /\ last' = Call("update_event_status", caller, event_id, NoAddr, NoAddr,
                    0, is_active, res, NoneV)

\* ---- store_event (legacy accessor: no authorization, no existence check) ----
\* Mutant: an existing record is not overwritten.
store_event_NoOverwrite(event_info) ==
    /\ effects' = << "store_event" >>
    /\ IF storage_event_exists(event_info.event_id)
       THEN UNCHANGED <<events, organizer_events>>
       ELSE /\ events' = storage_store_event_records(event_info)
            /\ organizer_events' = storage_store_event_index(event_info)
    /\ UNCHANGED <<admin, platform_fee, now>>
    /\ published' = << >>
    /\ last' = Call("store_event", NoAddr, event_info.event_id,
                    event_info.organizer_address, event_info.payment_address,
                    event_info.platform_fee_percent, event_info.is_active,
                    "Ok", Some(event_info))

store_event(event_info) ==
    /\ effects' = << "store_event" >>
    /\ events' = storage_store_event_records(event_info)
    /\ organizer_events' = storage_store_event_index(event_info)
    /\ UNCHANGED <<admin, platform_fee, now>>
    /\ published' = << >>
    /\ last' = Call("store_event", NoAddr, event_info.event_id,
                    event_info.organizer_address, event_info.payment_address,
                    event_info.platform_fee_percent, event_info.is_active,
                    "Ok", Some(event_info))

\* ---- plain reads ------------------------------------------------------------
Read(op, event_id, organizer, result, ret) ==
    /\ effects' = << >>
    /\ UNCHANGED <<admin, platform_fee, events, organizer_events, now>>
    /\ published' = << >>
    /\ last' = Call(op, NoAddr, event_id, organizer, NoAddr, 0, FALSE, result, ret)

\* Mutant: get_event filters out inactive records.
get_event_ActiveOnly(event_id) ==
    Read("get_event", event_id, NoAddr, "Ok",
         IF storage_event_exists(event_id) /\ events[event_id].is_active
         THEN storage_get_event(event_id)
         ELSE NoneV)

get_event(event_id) ==
    Read("get_event", event_id, NoAddr, "Ok", storage_get_event(event_id))

event_exists(event_id) ==
    Read("event_exists", event_id, NoAddr, "Ok", Some(storage_event_exists(event_id)))

get_organizer_events(organizer) ==
    Read("get_organizer_events", NoId, organizer, "Ok",
         Some(storage_get_organizer_events(organizer)))

get_platform_fee ==
    Read("get_platform_fee", NoId, NoAddr, "Ok", Some(storage_get_platform_fee))

get_admin ==
    Read("get_admin", NoId, NoAddr,
         IF IsSome(storage_get_admin) THEN "Ok" ELSE "NotInitialized",
         storage_get_admin)

\* ---- set_platform_fee -------------------------------------------------------
\* Mutant: the range check is dropped.
SetFeeOutcome_NoRangeCheck(caller, new_fee_percent) ==
    IF ~ IsSome(storage_get_admin)
    THEN "NotInitialized"
    ELSE IF caller # Unwrap(storage_get_admin)
    THEN "AuthFailed"
    ELSE "Ok"

\* Mutant: the admin's authorization is not required.
SetFeeOutcome_NoAuth(caller, new_fee_percent) ==
    IF ~ IsSome(storage_get_admin)
    THEN "NotInitialized"
    ELSE IF new_fee_percent > MAX_FEE_BPS
    THEN "InvalidFeePercent"
    ELSE "Ok"

SetFeeOutcome(caller, new_fee_percent) ==
    IF ~ IsSome(storage_get_admin)
    THEN "NotInitialized"
    ELSE IF caller # Unwrap(storage_get_admin)
    THEN "AuthFailed"
    ELSE IF new_fee_percent > MAX_FEE_BPS
    THEN "InvalidFeePercent"
    ELSE "Ok"

FeeUpdated(new_fee_percent) ==
    [type |-> "FeeUpdated", new_fee_percent |-> new_fee_percent]

\* The write and the publish of a successful set_platform_fee, in program order.
SetFeeEffects == << "set_platform_fee", "publish" >>

set_platform_fee(caller, new_fee_percent) ==
    LET res == SetFeeOutcome(caller, new_fee_percent) IN
    /\ effects' = IF res = "Ok" THEN SetFeeEffects ELSE << >>
    /\ IF res = "Ok"
       THEN /\ platform_fee' = Some(new_fee_percent)
            /\ published' = << FeeUpdated(new_fee_percent) >>
       ELSE /\ UNCHANGED platform_fee
            /\ published' = << >>
    /\ UNCHANGED <<admin, events, organizer_events, now>>
    /\ last' = Call("set_platform_fee", caller, NoId, NoAddr, NoAddr,
                    new_fee_percent, FALSE, res, NoneV)

\* ---- clock ------------------------------------------------------------------
Tick ==
    /\ now < MaxTime
    /\ now' = now + 1
    /\ effects' = << >>
    /\ UNCHANGED <<admin, platform_fee, events, organizer_events>>
    /\ published' = << >>
    /\ last' = Call("tick", NoAddr, NoId, NoAddr, NoAddr, 0, FALSE, "Ok", NoneV)

Next ==
    \/ \E a \in Addresses, f \in FeeInputs : initialize(a, f)
    \/ \E c \in Addresses, id \in EventIds, o \in Addresses, p \in PayAddresses :
           register_event(c, id, o, p)
    \/ \E id \in EventIds : get_event_payment_info(id)
    \/ \E c \in Addresses, id \in EventIds, b \in BOOLEAN :
           update_event_status(c, id, b)
    \/ \E e \in StoreEventInputs : store_event(e)
    \/ \E id \in EventIds : get_event(id)
    \/ \E id \in EventIds : event_exists(id)
    \/ \E o \in Addresses : get_organizer_events(o)
    \/ \E c \in Addresses, f \in FeeInputs : set_platform_fee(c, f)
    \/ get_platform_fee
    \/ get_admin
    \/ Tick

Spec == Init /\ [][Next]_vars

\* The registry without the legacy store_event accessor: the sequences of
\* initialize, register_event, update_event_status, set_platform_fee and reads.
NextNoStoreEvent ==
    \/ \E a \in Addresses, f \in FeeInputs : initialize(a, f)
    \/ \E c \in Addresses, id \in EventIds, o \in Addresses, p \in PayAddresses :
           register_event(c, id, o, p)
    \/ \E id \in EventIds : get_event_payment_info(id)
    \/ \E c \in Addresses, id \in EventIds, b \in BOOLEAN :
           update_event_status(c, id, b)
    \/ \E id \in EventIds : get_event(id)
    \/ \E id \in EventIds : event_exists(id)
    \/ \E o \in Addresses : get_organizer_events(o)
    \/ \E c \in Addresses, f \in FeeInputs : set_platform_fee(c, f)
    \/ get_platform_fee
    \/ get_admin
    \/ Tick

SpecNoStoreEvent == Init /\ [][NextNoStoreEvent]_vars

\* ---- properties --------------------------------------------------------------
StoreUnchanged == UNCHANGED <<admin, platform_fee, events, organizer_events>>

\* C1: once admin or fee is present, every initialize call fails with
\* AlreadyInitialized and leaves admin and global fee unchanged.
C1_AlreadyInitializedStep ==
    (last'.op = "initialize" /\ (IsSome(admin) \/ IsSome(platform_fee)))
        => (last'.result = "AlreadyInitialized" /\ UNCHANGED <<admin, platform_fee>>)

C1_ExactlyOnce == [][C1_AlreadyInitializedStep]_vars

\* C2: the global fee is always in [0, 10000].
FeeInRange ==
    /\ storage_get_platform_fee \in 0..MAX_FEE_BPS
    /\ IsSome(platform_fee) => Unwrap(platform_fee) \in 0..MAX_FEE_BPS

FeeCall == last'.op \in {"initialize", "set_platform_fee"} /\ last'.fee > MAX_FEE_BPS

\* C2 as stated: every initialize / set_platform_fee call with a fee above 10000
\* fails with InvalidFeePercent and changes nothing.
C2_OriginalStep ==
    FeeCall => (last'.result = "InvalidFeePercent" /\ StoreUnchanged)

C2_Original == [][C2_OriginalStep]_vars

\* C2 (amended): the global fee is always in [0, 10000]; an initialize or
\* set_platform_fee call with a fee above 10000 always fails and changes
\* nothing, and its error is InvalidFeePercent whenever the checks that come
\* before the range check pass (initialize: neither admin nor fee present;
\* set_platform_fee: an admin is stored and the caller controls it).
C2_AmendedStep ==
    FeeCall =>
        /\ last'.result # "Ok"
        /\ StoreUnchanged
        /\ published' = << >>
        /\ (last'.op = "initialize" /\ ~ IsSome(admin) /\ ~ IsSome(platform_fee))
               => last'.result = "InvalidFeePercent"
        /\ (last'.op = "set_platform_fee" /\ IsSome(admin)
                /\ last'.caller = Unwrap(admin))
               => last'.result = "InvalidFeePercent"

C2_FeeRange == []FeeInRange /\ [][C2_AmendedStep]_vars

C2_Witness ==
    /\ last.op = "set_platform_fee"
    /\ last.fee > MAX_FEE_BPS
    /\ last.result = "InvalidFeePercent"
    /\ platform_fee = Some(MAX_FEE_BPS)

\* C3: a successful register_event snapshots the global fee into the record, and
\* a successful set_platform_fee leaves every stored record and the value of
\* get_event_payment_info for it unchanged while get_platform_fee returns the
\* fee just set.
C3_SnapshotStep ==
    /\ (last'.op = "register_event" /\ last'.result = "Ok")
           => events'[last'.event_id].platform_fee_percent = storage_get_platform_fee
    /\ (last'.op = "set_platform_fee" /\ last'.result = "Ok")
           => /\ storage_get_platform_fee' = last'.fee
              /\ \A id \in DOMAIN events :
                    /\ storage_get_event(id)' = storage_get_event(id)
                    /\ PaymentInfoValue(id)' = PaymentInfoValue(id)

C3_FeeSnapshot == [][C3_SnapshotStep]_vars

C3_Witness ==
    /\ last.op = "set_platform_fee"
    /\ last.result = "Ok"
    /\ platform_fee = Some(MAX_FEE_BPS)
    /\ "evt1" \in DOMAIN events
    /\ PaymentInfoValue("evt1") = Some(PaymentInfo("P", 250))

\* C4: register_event for an event_id that already has a record, by a caller who
\* controls the organizer passed, fails with EventAlreadyExists, changes nothing
\* in the store and publishes nothing.
C4_DuplicateStep ==
    (last'.op = "register_event" /\ last'.caller = last'.organizer
         /\ last'.event_id \in DOMAIN events)
        => /\ last'.result = "EventAlreadyExists"
           /\ StoreUnchanged
           /\ published' = << >>

C4_DuplicateRejected == [][C4_DuplicateStep]_vars

C4_Witness ==
    /\ last.op = "register_event"
    /\ last.result = "EventAlreadyExists"
    /\ events[last.event_id].organizer_address # last.organizer
    /\ events[last.event_id].platform_fee_percent # storage_get_platform_fee

\* C5: right after a successful register_event, get_event returns a record with
\* the call's event_id, organizer and payment address, is_active = TRUE, the
\* global fee read at the call and created_at = the ledger timestamp of the call.
C5_RegisterStep ==
    (last'.op = "register_event" /\ last'.result = "Ok")
        => \E id \in EventIds :
               /\ id = last'.event_id
               /\ storage_get_event(id)' =
                      Some(EventInfo(id, last'.organizer, last'.payment,
                                     storage_get_platform_fee, TRUE, now))

C5_RegisterThenGet == [][C5_RegisterStep]_vars

C5_Witness ==
    /\ last.op = "register_event"
    /\ last.result = "Ok"
    /\ now = 1
    /\ events[last.event_id] = EventInfo(last.event_id, "O", "P", 250, TRUE, 1)

\* C6: get_event_payment_info fails with EventNotFound exactly when there is no
\* record, with EventInactive exactly when the record is inactive, and otherwise
\* returns the payment address and the fee stored in the record.
C6_PaymentInfo ==
    last.op = "get_event_payment_info" =>
        LET id == last.event_id IN
        /\ (last.result = "EventNotFound") <=> (id \notin DOMAIN events)
        /\ (last.result = "EventInactive")
               <=> (id \in DOMAIN events /\ ~ events[id].is_active)
        /\ (last.result \notin {"EventNotFound", "EventInactive"})
               => /\ last.result = "Ok"
                  /\ last.ret = Some([payment_address |-> events[id].payment_address,
                                      platform_fee_percent |->
                                          events[id].platform_fee_percent])
        /\ (last.result # "Ok") => last.ret = NoneV

C6_Witness ==
    /\ last.op = "get_event_payment_info"
    /\ last.result = "EventInactive"
    /\ events[last.event_id].platform_fee_percent = 250

\* C7: update_event_status by a caller other than the record's stored organizer
\* fails, changes nothing and publishes nothing; outside store_event, is_active
\* of a record changes only in a successful update_event_status step whose
\* caller is the record's stored organizer.
C7_OrganizerOnlyStep ==
    /\ (last'.op = "update_event_status" /\ last'.event_id \in DOMAIN events
            /\ last'.caller # events[last'.event_id].organizer_address)
           => /\ last'.result = "AuthFailed"
              /\ StoreUnchanged
              /\ published' = << >>
    /\ \A id \in DOMAIN events :
           (last'.op # "store_event"
                /\ events'[id].is_active # events[id].is_active)
               => /\ last'.op = "update_event_status"
                  /\ last'.result = "Ok"
                  /\ last'.event_id = id
                  /\ last'.caller = events[id].organizer_address

C7_OrganizerOnly == [][C7_OrganizerOnlyStep]_vars

C7_Witness ==
    /\ last.op = "update_event_status"
    /\ last.result = "AuthFailed"
    /\ admin = Some(last.caller)
    /\ events[last.event_id].is_active

\* C8: set_platform_fee fails with NotInitialized when no admin is stored; with
\* an admin stored, a call by a caller who does not control it fails and leaves
\* the fee unchanged, and the fee changes only when the caller controls it.
C8_AdminOnlyStep ==
    last'.op = "set_platform_fee" =>
        /\ ~ IsSome(admin) => (last'.result = "NotInitialized" /\ StoreUnchanged)
        /\ (IsSome(admin) /\ last'.caller # Unwrap(admin))
               => (last'.result = "AuthFailed" /\ StoreUnchanged)
        /\ platform_fee' # platform_fee
               => (IsSome(admin) /\ last'.caller = Unwrap(admin))

C8_AdminOnly == [][C8_AdminOnlyStep]_vars

C8_Witness ==
    /\ last.op = "set_platform_fee"
    /\ last.result = "AuthFailed"
    /\ last.fee = 250
    /\ platform_fee = Some(MAX_FEE_BPS)

\* C9: register_event on an uninitialized registry (no GlobalConfig), by a caller
\* who controls the organizer, fails with NotInitialized: no record is created,
\* the organizer index is unchanged and nothing is published.
C9_UninitializedStep ==
    (last'.op = "register_event" /\ last'.caller = last'.organizer
         /\ ~ IsSome(admin) /\ ~ IsSome(platform_fee))
        => /\ last'.result = "NotInitialized"
           /\ UNCHANGED <<events, organizer_events>>
           /\ published' = << >>

C9_RegisterNeedsConfig == [][C9_UninitializedStep]_vars

\* C10: once a record exists, its event_id, organizer, payment_address,
\* platform_fee_percent and created_at never change, whatever public operation
\* is called; is_active changes only through update_event_status.
C10_ImmutableStep ==
    \A id \in DOMAIN events :
        /\ id \in DOMAIN events'
        /\ events'[id].event_id = events[id].event_id
        /\ events'[id].organizer_address = events[id].organizer_address
        /\ events'[id].payment_address = events[id].payment_address
        /\ events'[id].platform_fee_percent = events[id].platform_fee_percent
        /\ events'[id].created_at = events[id].created_at
        /\ events'[id].is_active # events[id].is_active
               => last'.op = "update_event_status"

C10_RecordImmutable == [][C10_ImmutableStep]_vars

\* C11: a record, once it exists, exists in every later state: no step removes
\* an event_id from the store, deactivation included.
C11_PersistStep ==
    \A id \in EventIds : storage_event_exists(id) => storage_event_exists(id)'

C11_RecordsPersist == [][C11_PersistStep]_vars

C11_Witness ==
    /\ last.op = "update_event_status"
    /\ last.result = "Ok"
    /\ last.flag = FALSE
    /\ storage_event_exists(last.event_id)
    /\ ~ events[last.event_id].is_active

\* C12: once an admin is stored it never changes and get_admin returns it; from
\* then on the global fee changes only in a successful set_platform_fee step
\* whose caller controls the stored admin.
C12_AdminStep ==
    IsSome(admin) =>
        /\ admin' = admin
        /\ last'.op = "get_admin" => (last'.result = "Ok" /\ last'.ret = admin)
        /\ platform_fee' # platform_fee
               => /\ last'.op = "set_platform_fee"
                  /\ last'.result = "Ok"
                  /\ last'.caller = Unwrap(admin)
                  /\ platform_fee' = Some(last'.fee)

C12_AdminImmutable == [][C12_AdminStep]_vars

C12_Witness ==
    /\ last.op = "initialize"
    /\ IsSome(admin)
    /\ IsSome(platform_fee)
    /\ last.organizer # Unwrap(admin)
    /\ last.fee <= MAX_FEE_BPS
    /\ last.fee # Unwrap(platform_fee)

\* C13: without store_event, the index of every organizer lists, each once,
\* exactly the event_ids whose record names that organizer; a successful
\* register_event appends its event_id at the end of its organizer's index and
\* every other step (update_event_status, failed calls, reads) leaves every
\* index unchanged, so the index is the registration order.
NoDuplicates(seq) == \A i, j \in 1..Len(seq) : seq[i] = seq[j] => i = j
Elements(seq) == { seq[i] : i \in 1..Len(seq) }

C13_IndexInv ==
    \A o \in Addresses :
        LET idx == storage_get_organizer_events(o) IN
        /\ NoDuplicates(idx)
        /\ Elements(idx) = { id \in DOMAIN events : events[id].organizer_address = o }

C13_IndexStep ==
    /\ (last'.op = "register_event" /\ last'.result = "Ok")
           => organizer_events' =
                  [organizer_events EXCEPT ![last'.organizer] = Append(@, last'.event_id)]
    /\ ~ (last'.op = "register_event" /\ last'.result = "Ok")
           => organizer_events' = organizer_events
    /\ last'.op = "get_organizer_events"
           => last'.ret = Some(organizer_events[last'.organizer])

MutatingOps == {"initialize", "register_event", "update_event_status", "set_platform_fee"}

C14_AllOrNothingStep ==
    /\ (last'.op \in MutatingOps /\ last'.result # "Ok")
           => /\ StoreUnchanged
              /\ published' = << >>
              /\ effects' = << >>
    /\ (last'.op = "initialize" /\ last'.result = "Ok")
           => (admin' = Some(last'.organizer) /\ platform_fee' = Some(last'.fee))
    /\ (last'.op = "register_event" /\ last'.result = "Ok")
           => /\ last'.event_id \in DOMAIN events'
              /\ Contains(organizer_events'[last'.organizer], last'.event_id)

C14_AllOrNothing == [][C14_AllOrNothingStep]_vars

C14_Witness ==
    /\ last.op = "initialize"
    /\ last.result = "InvalidFeePercent"
    /\ ~ IsSome(admin)
    /\ ~ IsSome(platform_fee)
    /\ DOMAIN events # {}

\* C15: in every call the publishes come after all store writes; a successful
\* register_event publishes exactly one EventRegistered with the call's
\* event_id, organizer and payment address and the record's created_at as
\* timestamp, a successful set_platform_fee exactly one FeeUpdated with the new
\* fee, a successful update_event_status exactly one EventStatusUpdated, and
\* initialize, store_event, the reads and failed calls publish nothing.
PublishCount(seq) == Cardinality({ i \in 1..Len(seq) : seq[i] = "publish" })

PublishAfterWrites(seq) ==
    \A i, j \in 1..Len(seq) : (i < j /\ seq[i] = "publish") => seq[j] = "publish"

C15_Notifications ==
    /\ PublishAfterWrites(effects)
    /\ PublishCount(effects) = Len(published)
    /\ (last.op = "register_event" /\ last.result = "Ok")
           => published = << [type |-> "EventRegistered",
                              event_id |-> last.event_id,
                              organizer_address |-> last.organizer,
                              payment_address |-> last.payment,
                              timestamp |-> events[last.event_id].created_at] >>
    /\ (last.op = "set_platform_fee" /\ last.result = "Ok")
           => published = << [type |-> "FeeUpdated", new_fee_percent |-> last.fee] >>
    /\ (last.op = "update_event_status" /\ last.result = "Ok")
           => (Len(published) = 1 /\ published[1].type = "EventStatusUpdated")
    /\ (last.op \notin {"register_event", "set_platform_fee", "update_event_status"}
            \/ last.result # "Ok")
           => published = << >>

C15_Witness ==
    /\ last.op = "register_event"
    /\ last.result = "Ok"
    /\ effects = << "store_event", "publish" >>
    /\ Len(published) = 1
    /\ published[1].timestamp = 1
    /\ published[1].event_id = "evt2"
    /\ "evt1" \in DOMAIN events

\* C16: a successful update_event_status(event_id, v) sets is_active of that
\* record to v and changes nothing else in the store, so that the same call
\* made again succeeds and leaves the store as it is; every successful call, also
\* one where is_active already equals v, publishes one EventStatusUpdated with
\* event_id, v, updated_by = the stored organizer and the current timestamp.
C16_IdempotentStep ==
    (last'.op = "update_event_status" /\ last'.result = "Ok") =>
        \E c \in Addresses, id \in EventIds, v \in BOOLEAN :
            /\ c = last'.caller /\ id = last'.event_id /\ v = last'.flag
            /\ events' = [events EXCEPT ![id] = [@ EXCEPT !.is_active = v]]
            /\ UNCHANGED <<admin, platform_fee, organizer_events>>
            /\ events[id].is_active = v => StoreUnchanged
            /\ published' = << [type |-> "EventStatusUpdated", event_id |-> id,
                                is_active |-> v,
                                updated_by |-> events[id].organizer_address,
                                timestamp |-> now] >>
            /\ UpdateOutcome(c, id)' = "Ok"
            /\ UpdatedRecords(UpdatedEventInfo(events[id], v))' = events'
            /\ storage_store_event_index(UpdatedEventInfo(events[id], v))'
                   = organizer_events'

C16_UpdateIdempotent == [][C16_IdempotentStep]_vars

C16_Witness ==
    /\ last.op = "update_event_status"
    /\ last.result = "Ok"
    /\ last.flag = TRUE
    /\ published = << [type |-> "EventStatusUpdated", event_id |-> last.event_id,
                       is_active |-> TRUE, updated_by |-> last.caller,
                       timestamp |-> 1] >>
    /\ events[last.event_id].created_at = 1
    /\ events[last.event_id].is_active

\* C17: store_event(event_info) always succeeds, whether or not a record with
\* that event_id exists and whether or not the registry is initialized; right
\* after it get_event(event_info.event_id) returns exactly event_info, and admin
\* and global fee are unchanged.
C17_StoreEventStep ==
    last'.op = "store_event" =>
        \E id \in EventIds :
            /\ id = last'.event_id
            /\ last'.result = "Ok"
            /\ IsSome(last'.ret)
            /\ Unwrap(last'.ret).event_id = id
            /\ storage_get_event(id)' = last'.ret
            /\ UNCHANGED <<admin, platform_fee>>

C17_RawOverwrite == [][C17_StoreEventStep]_vars

C17_Witness ==
    /\ last.op = "store_event"
    /\ ~ IsSome(admin)
    /\ Contains(organizer_events["O"], last.event_id)
    /\ events[last.event_id] = EventInfo(last.event_id, "A", "Q", MAX_FEE_BPS + 1, FALSE, 0)

\* C18: get_event_payment_info, get_event, event_exists, get_organizer_events,
\* get_platform_fee and get_admin change nothing in the store and publish
\* nothing, also when they return an error or absence; get_event returns the
\* stored record whether it is active or not.
ReadOps ==
    {"get_event_payment_info", "get_event", "event_exists", "get_organizer_events",
     "get_platform_fee", "get_admin"}

C18_ReadStep ==
    last'.op \in ReadOps =>
        /\ StoreUnchanged
        /\ now' = now
        /\ published' = << >>
        /\ effects' = << >>
        /\ last'.caller = NoAddr
        /\ last'.op = "get_event"
               => /\ last'.result = "Ok"
                  /\ last'.event_id \in DOMAIN events
                         => last'.ret = Some(events[last'.event_id])
                  /\ last'.event_id \notin DOMAIN events => last'.ret = NoneV

C18_ReadsArePure == [][C18_ReadStep]_vars

C18_Witness ==
    /\ last.op = "get_event"
    /\ IsSome(last.ret)
    /\ ~ Unwrap(last.ret).is_active
    /\ Unwrap(last.ret).payment_address = "P"

\* C19: every stored record has platform_fee_percent in [0, 10000], is stored
\* under the key equal to its own event_id, and its event_id is listed in the
\* index of its own organizer.
RecordKeyedAndIndexed(id) ==
    /\ events[id].event_id = id
    /\ Contains(organizer_events[events[id].organizer_address], id)

C19_RecordsWellFormed ==
    \A id \in DOMAIN events :
        /\ events[id].platform_fee_percent \in 0..MAX_FEE_BPS
        /\ RecordKeyedAndIndexed(id)

\* The part of C19 that does not concern the fee.
C19_KeyAndIndexOnly == \A id \in DOMAIN events : RecordKeyedAndIndexed(id)

\* C20: the admin is present exactly when the global fee is present, so
\* set_platform_fee and get_admin return NotInitialized exactly in the states
\* in which initialize can still succeed.
InitializeCanSucceed == \E f \in FeeInputs : InitializeOutcome(f) = "Ok"

C20_ConfigWhole ==
    /\ IsSome(admin) <=> IsSome(platform_fee)
    /\ IsSome(storage_get_admin) <=> storage_has_platform_fee
    /\ InitializeCanSucceed <=> ~ IsSome(admin)
    /\ last.op \in {"set_platform_fee", "get_admin"}
           => ((last.result = "NotInitialized") <=> InitializeCanSucceed)
    /\ last.op = "get_admin"
           => ((last.result = "Ok") <=> IsSome(admin)) /\ last.ret = admin

C20_Witness ==
    /\ last.op = "set_platform_fee"
    /\ last.result = "NotInitialized"
    /\ DOMAIN events = EventIds
====
